---------------------------- MODULE Spec2Model ----------------------------
(***************************************************************************)
(* State-diff and notification-dispatch engine of the NKON monitor         *)
(* (src/nkon_monitor.py): the persisted process state, one monitoring run  *)
(* per process (load, observe, per-recipient update/detect/schedule/       *)
(* dispatch, save), the stock-delta accumulator, the change detector and   *)
(* the heartbeat scheduler.                                                *)
(*                                                                         *)
(* Conventions: Python None of an optional integer is None (-1); of an     *)
(* optional string it is "none".  Times are minutes; a datetime is         *)
(* day * 1440 + minute of the day.  A dict is a function whose DOMAIN is   *)
(* its key set.  A recipient's msg_key is the tuple <<chat_id, thread_id>>.*)
(***************************************************************************)
EXTENDS Integers, Sequences, FiniteSets, TLC

\* ------------------------------------------------------------------ bounds
MaxRuns == 3
MaxNotifyDay == 1
MaxRare == 1
MaxObserved == 4

\* ------------------------------------------------------- program constants
RESTOCK_THRESHOLD == 100
MIN_CAPACITY_AH == 200
DefaultCooldownHours == 24
None == -1
DatetimeMin == -1000000
MinutesPerDay == 1440

\* ---------------------------------------------------------------- helpers
Min(a, b) == IF a < b THEN a ELSE b

Get(d, k, default) == IF k \in DOMAIN d THEN d[k] ELSE default

EmptyDict == <<>>

DateOf(t) == t \div MinutesPerDay

TimeOf(t) == t % MinutesPerDay

Combine(day, tod) == day * MinutesPerDay + tod

\* ---------------------------------------------------------- configuration
\* settings.RECIPIENTS: two alert-only recipients with different capacity
\* filters and one full-report (admin) recipient.
RECIPIENTS ==
  << [chat_id |-> "c1", thread_id |-> 0, type |-> "changes", min_capacity_ah |-> 200],
     [chat_id |-> "c2", thread_id |-> 7, type |-> "changes", min_capacity_ah |-> 300],
     [chat_id |-> "c3", thread_id |-> 0, type |-> "full", min_capacity_ah |-> 200] >>

\* msg_key = f"{chat_id}_{thread_id}" if thread_id else chat_id
MsgKey(r) == IF r.thread_id # 0 THEN <<r.chat_id, r.thread_id>> ELSE <<r.chat_id>>

MsgKeys == {MsgKey(RECIPIENTS[i]) : i \in 1..Len(RECIPIENTS)}

\* config['heartbeat_times'] as in the scheduler tests: 08:00 and 16:00.
HEARTBEAT_TIMES == <<480, 960>>

\* ------------------------------------------------------------ accumulator
ZeroDiffs == [decrease |-> 0, increase |-> 0]

\* Faulty variant: a return is added to decrease without the clamp to 0.
UpdateDiffsNoClamp(diffs, delta, restock_threshold) ==
  IF delta < 0
    THEN [diffs EXCEPT !.decrease = @ + delta]
    ELSE IF delta <= restock_threshold
      THEN [diffs EXCEPT !.decrease = @ + delta]
      ELSE [diffs EXCEPT !.increase = @ + delta]

\* Faulty variant: a delta equal to the threshold counts as a restock.
UpdateDiffsStrictThreshold(diffs, delta, restock_threshold) ==
  IF delta < 0
    THEN [diffs EXCEPT !.decrease = @ + delta]
    ELSE IF delta < restock_threshold
      THEN [diffs EXCEPT !.decrease = Min(@ + delta, 0)]
      ELSE [diffs EXCEPT !.increase = @ + delta]

\* One observed delta of one item folded into its {decrease, increase} pair.
UpdateDiffs(diffs, delta, restock_threshold) ==
  IF delta < 0
    THEN [diffs EXCEPT !.decrease = @ + delta]
    ELSE IF delta <= restock_threshold
      THEN [diffs EXCEPT !.decrease = Min(@ + delta, 0)]
      ELSE [diffs EXCEPT !.increase = @ + delta]

\* Keys of current_products whose counters are touched: real stock known now
\* and in the previous snapshot, and different.
CounterKeys(current_products, prev) ==
  {k \in DOMAIN current_products :
     /\ current_products[k].real_stock # None
     /\ k \in DOMAIN prev
     /\ prev[k].real_stock # None
     /\ prev[k].real_stock # current_products[k].real_stock}

\* _update_stock_counters: the recipient's new delta map.
UpdateStockCounters(current_products, rec_all_diffs, prev, restock_threshold) ==
  LET touched == CounterKeys(current_products, prev)
  IN [k \in (DOMAIN rec_all_diffs) \cup touched |->
        IF k \in touched
          THEN UpdateDiffs(Get(rec_all_diffs, k, ZeroDiffs),
                           current_products[k].real_stock - prev[k].real_stock,
                           restock_threshold)
          ELSE rec_all_diffs[k]]

\* -------------------------------------------------------- change detector
PriceChanged(old, new) ==
  IF old.price_value # None /\ new.price_value # None
    THEN old.price_value # new.price_value
    ELSE new.price # old.price

\* Faulty variant: a different real stock counts as a status change.
StatusOrStockChanged(old, new) ==
  \/ new.stock_status # old.stock_status
  \/ new.delivery_date # old.delivery_date
  \/ new.real_stock # old.real_stock

\* Faulty variant: a date change alone is not a status change.
StatusOnlyChanged(old, new) ==
  new.stock_status # old.stock_status

StatusOrDateChanged(old, new) ==
  \/ new.stock_status # old.stock_status
  \/ new.delivery_date # old.delivery_date

\* An item dict that carries a set "low-stock notified" flag.
Flagged(item) == "low_stock_notified" \in DOMAIN item /\ item.low_stock_notified

\* Faulty variant: items are reported as new on a first run too.
DetectChangesNoFirstRun(current_products, prev) ==
  LET both == (DOMAIN current_products) \cap (DOMAIN prev)
  IN [new |-> (DOMAIN current_products) \ (DOMAIN prev),
      removed |-> (DOMAIN prev) \ (DOMAIN current_products),
      price_changes |-> {k \in both : PriceChanged(prev[k], current_products[k])},
      status_changes |-> {k \in both : StatusOrDateChanged(prev[k], current_products[k])},
      current |-> current_products]

\* Faulty variant: the removal of a flagged item is not reported.
DetectChangesQuietRemovals(current_products, prev) ==
  LET is_first_run == (DOMAIN prev = {})
      both == (DOMAIN current_products) \cap (DOMAIN prev)
  IN [new |-> IF is_first_run THEN {} ELSE (DOMAIN current_products) \ (DOMAIN prev),
      removed |-> {k \in (DOMAIN prev) \ (DOMAIN current_products) : ~Flagged(prev[k])},
      price_changes |-> {k \in both : PriceChanged(prev[k], current_products[k])},
      status_changes |-> {k \in both : StatusOrDateChanged(prev[k], current_products[k])},
      current |-> current_products]

\* detect_changes(current_products) against self.previous_state; the lists
\* are modelled by the sets of their items' keys.
DetectChanges(current_products, prev) ==
  LET is_first_run == (DOMAIN prev = {})
      both == (DOMAIN current_products) \cap (DOMAIN prev)
  IN [new |-> IF is_first_run THEN {} ELSE (DOMAIN current_products) \ (DOMAIN prev),
      removed |-> (DOMAIN prev) \ (DOMAIN current_products),
      price_changes |-> {k \in both : PriceChanged(prev[k], current_products[k])},
      status_changes |-> {k \in both : StatusOrDateChanged(prev[k], current_products[k])},
      current |-> current_products]

\* bool(format_telegram_message(changes, include_unchanged=False)): the
\* message is None exactly when all four lists are empty.
HasChanges(ch) ==
  ch.new \cup ch.removed \cup ch.price_changes \cup ch.status_changes # {}

\* -------------------------------------------------------------- scheduler
\* Faulty variant: a slot counts as reached only strictly after its time.
DueSlotStrict(now, last, heartbeat_times) ==
  LET due == {i \in 1..Len(heartbeat_times) :
                /\ TimeOf(now) > heartbeat_times[i]
                /\ last < Combine(DateOf(now), heartbeat_times[i])}
  IN IF due = {} THEN 0 ELSE CHOOSE i \in due : \A j \in due : i <= j

\* First heartbeat slot (index into heartbeat_times) that is reached today
\* and not yet served, 0 if there is none.
DueSlot(now, last, heartbeat_times) ==
  LET due == {i \in 1..Len(heartbeat_times) :
                /\ TimeOf(now) >= heartbeat_times[i]
                /\ last < Combine(DateOf(now), heartbeat_times[i])}
  IN IF due = {} THEN 0 ELSE CHOOSE i \in due : \A j \in due : i <= j

\* Faulty variant: the cooldown is looked at before the changes.
ShouldNotifyCooldownFirst(has_changes, now, last, cooldown, heartbeat_times) ==
  IF now - last < cooldown
    THEN [notify |-> FALSE, reason |-> "cooldown"]
    ELSE IF has_changes
      THEN [notify |-> TRUE, reason |-> "changes"]
      ELSE IF DueSlot(now, last, heartbeat_times) # 0
        THEN [notify |-> TRUE, reason |-> "heartbeat"]
        ELSE [notify |-> FALSE, reason |-> "silent"]

\* Faulty variant: the slots are looked at before the cooldown.
ShouldNotifySlotsFirst(has_changes, now, last, cooldown, heartbeat_times) ==
  IF has_changes
    THEN [notify |-> TRUE, reason |-> "changes"]
    ELSE IF DueSlot(now, last, heartbeat_times) # 0
      THEN [notify |-> TRUE, reason |-> "heartbeat"]
      ELSE IF now - last < cooldown
        THEN [notify |-> FALSE, reason |-> "cooldown"]
        ELSE [notify |-> FALSE, reason |-> "silent"]

\* _should_notify(has_changes) with now, self.last_notification_time and the
\* config made explicit; cooldown in minutes.
ShouldNotify(has_changes, now, last, cooldown, heartbeat_times) ==
  IF has_changes
    THEN [notify |-> TRUE, reason |-> "changes"]
    ELSE IF now - last < cooldown
      THEN [notify |-> FALSE, reason |-> "cooldown"]
      ELSE IF DueSlot(now, last, heartbeat_times) # 0
        THEN [notify |-> TRUE, reason |-> "heartbeat"]
        ELSE [notify |-> FALSE, reason |-> "silent"]


\* ---------------------------------------------------- catalog observation
Keys == {"a"}

\* What the catalog page and the detail page show for one item in one run:
\* the parsed listing (parse_products returns in_stock / preorder items only),
\* the fetched delivery date ("none": not found) and the probed real stock
\* (None: the probe failed).
RawItem(cap, pv, status, date, probe) ==
  [capacity |-> cap, price |-> pv, price_value |-> pv, stock_status |-> status,
   date |-> date, probe |-> probe]

Observations(k) ==
  IF k = "a"
    THEN {RawItem(280, 50, "in_stock", "none", 100),
          RawItem(280, 50, "in_stock", "none", 90),
          RawItem(280, 50, "in_stock", "none", 2095),
          RawItem(280, 50, "in_stock", "none", None),
          RawItem(280, 50, "in_stock", "none", 0)}
    ELSE {RawItem(314, 80, "preorder", "d1", 100)}

\* The raw catalogs one run can observe: any subset of the keys, each with one
\* of its observations.
WellKeyed(raw) == \A k \in DOMAIN raw : raw[k] \in Observations(k)

Catalogs ==
  {raw \in UNION {[S -> UNION {Observations(k) : k \in S}] : S \in SUBSET Keys} :
     WellKeyed(raw)}

\* run(), "Додатково: отримання деталей": the delivery date and the real
\* stock of one listed item, with the carry-forward from the previous state.
Detail(raw_item, prev, k) ==
  LET has_old == k \in DOMAIN prev
      date == IF raw_item.date # "none"
                THEN raw_item.date
                ELSE IF has_old /\ prev[k].stock_status = "preorder"
                                /\ prev[k].delivery_date # "none"
                  THEN prev[k].delivery_date
                  ELSE "none"
      status1 == IF raw_item.date # "none" /\ raw_item.stock_status = "in_stock"
                   THEN "preorder"
                   ELSE raw_item.stock_status
      stock == IF raw_item.probe # None
                 THEN raw_item.probe
                 ELSE IF has_old THEN prev[k].real_stock ELSE None
      status2 == IF raw_item.probe = 0 THEN "out_of_stock" ELSE status1
  IN [capacity |-> raw_item.capacity, price |-> raw_item.price,
      price_value |-> raw_item.price_value, stock_status |-> status2,
      delivery_date |-> date, real_stock |-> stock]

\* The recipients' smallest capacity filter (effective_min_ah).
EffectiveMinAh ==
  CHOOSE m \in {RECIPIENTS[i].min_capacity_ah : i \in 1..Len(RECIPIENTS)} :
    \A i \in 1..Len(RECIPIENTS) : m <= RECIPIENTS[i].min_capacity_ah

\* Faulty variant: an item probed at 0 stock is kept in the run's products.
FetchProductsKeepsEmpty(raw, prev) ==
  LET listed == {k \in DOMAIN raw : raw[k].capacity >= EffectiveMinAh}
  IN [k \in listed |-> Detail(raw[k], prev, k)]

\* run(), from the page loop to "Остаточна фільтрація": the products of
\* this run, keyed as current_state keys them.
FetchProducts(raw, prev) ==
  LET listed == {k \in DOMAIN raw : raw[k].capacity >= EffectiveMinAh}
      kept == {k \in listed :
                 Detail(raw[k], prev, k).stock_status \in {"in_stock", "preorder"}}
  IN [k \in kept |-> Detail(raw[k], prev, k)]

\* rec_products = [p for p in products if p['capacity'] >= rec_min_ah]
RecProducts(prods, r) ==
  [k \in {x \in DOMAIN prods : prods[x].capacity >= r.min_capacity_ah} |-> prods[k]]

\* ------------------------------------------------------------------ state
VARIABLES
  state_file,               \* the content of state.json
  previous_state,           \* self.previous_state
  last_messages,            \* self.last_messages
  stock_cumulative_diffs,   \* self.stock_cumulative_diffs
  last_notification_time,   \* self.last_notification_time
  heartbeat_cooldown,       \* config['heartbeat_cooldown'], minutes
  pc,                       \* "idle": no process; "loop": inside run()
  runs,                     \* processes started so far
  dry_run, force_notify,    \* the flags of the current run
  now,                      \* the wall clock
  products,                 \* run(): current_state
  idx,                      \* run(): position in settings.RECIPIENTS
  new_last_messages,        \* run(): new_last_messages without '_no_changes'
  active_no_changes,        \* run(): active_no_changes
  next_msg_id,              \* the transport's next message id
  log,                      \* transport calls and resets of the last step
  last,                     \* the locals of the last loop iteration
  permanent_ids,            \* ids the transport gave to "changes" messages
  hb_pending, hb_sent,      \* time of the last heartbeat: of this run / of the saved runs
  rare,                     \* failed transport calls and runs started with
                            \* --dry-run or --force-notify, so far
  exit_status,              \* how the last process ended: "ok" / "raised"
  args, result              \* inputs and output of a function applied on its own

vars == <<state_file, previous_state, last_messages, stock_cumulative_diffs,
          last_notification_time, heartbeat_cooldown, pc, runs, dry_run,
          force_notify, now, products, idx, new_last_messages,
          active_no_changes, next_msg_id, log, last, permanent_ids,
          hb_pending, hb_sent, rare, exit_status, args, result>>

Put(d, k, v) == [x \in (DOMAIN d) \cup {k} |-> IF x = k THEN v ELSE d[x]]

NoMessages == [sent |-> EmptyDict, no_changes |-> EmptyDict]

\* datetime.isoformat(): the text of a timestamp, its date and its time of day.
IsoFormat(t) == <<DateOf(t), TimeOf(t)>>

\* Faulty variant: only the date of the text is read.
FromIsoFormatDateOnly(s) == Combine(s[1], 0)

\* datetime.fromisoformat(nt_str)
FromIsoFormat(s) == Combine(s[1], s[2])

\* loaded_state.get('last_notification_time') of a state without the field
NoTimestamp == <<>>

\* No state.json: _load_state returns {}.
NoFile ==
  [version |-> 0, products |-> EmptyDict, last_messages |-> NoMessages,
   stock_cumulative_diffs |-> EmptyDict, last_notification_time |-> NoTimestamp]

NoLast ==
  [msg_key |-> <<>>, type |-> "", has_changes |-> FALSE, reason |-> "",
   branch |-> "", slot |-> 0, hb_before |-> DatetimeMin, last_nc_id |-> 0,
   diffs |-> EmptyDict,
   changes |-> DetectChanges(EmptyDict, EmptyDict)]

TimesOfDay == {450, 485, 990}

TimePoints == {Combine(0, t) : t \in TimesOfDay}

CooldownChoices == {480, DefaultCooldownHours * 60}

\* __init__: the fields of the monitor from the loaded state.
LoadedState(file) ==
  IF file.version >= 2
    THEN [previous_state |-> file.products,
          last_messages |-> file.last_messages,
          stock_cumulative_diffs |-> file.stock_cumulative_diffs,
          last_notification_time |-> IF file.last_notification_time = NoTimestamp
                                       THEN DatetimeMin
                                       ELSE FromIsoFormat(file.last_notification_time)]
    ELSE [previous_state |-> file.products,
          last_messages |-> NoMessages,
          stock_cumulative_diffs |-> EmptyDict,
          last_notification_time |-> DatetimeMin]

Init ==
  /\ state_file = NoFile
  /\ previous_state = EmptyDict
  /\ last_messages = NoMessages
  /\ stock_cumulative_diffs = EmptyDict
  /\ last_notification_time = DatetimeMin
  /\ heartbeat_cooldown \in CooldownChoices
  /\ pc = "idle"
  /\ runs = 0
  /\ dry_run = FALSE
  /\ force_notify = FALSE
  /\ now = 0
  /\ products = EmptyDict
  /\ idx = 0
  /\ new_last_messages = EmptyDict
  /\ active_no_changes = EmptyDict
  /\ next_msg_id = 1
  /\ log = <<>>
  /\ last = NoLast
  /\ permanent_ids = {}
  /\ hb_pending = DatetimeMin
  /\ hb_sent = DatetimeMin
  /\ rare = 0
  /\ exit_status = ""
  /\ args = <<>>
  /\ result = <<>>

\* main(): a new process constructs the monitor from state.json and enters
\* run(), which observes the catalog.
StartRun ==
  /\ pc = "idle"
  /\ runs < MaxRuns
  /\ \E d \in BOOLEAN, f \in BOOLEAN, t \in TimePoints, raw \in Catalogs :
       LET st == LoadedState(state_file)
       IN /\ t > now
          /\ rare' = IF d \/ f THEN rare + 1 ELSE rare
          /\ rare' <= MaxRare
          /\ dry_run' = d
          /\ force_notify' = f
          /\ now' = t
          /\ previous_state' = st.previous_state
          /\ last_messages' = st.last_messages
          /\ stock_cumulative_diffs' = st.stock_cumulative_diffs
          /\ last_notification_time' = st.last_notification_time
          /\ products' = FetchProducts(raw, st.previous_state)
  /\ pc' = "loop"
  /\ runs' = runs + 1
  /\ idx' = 1
  /\ new_last_messages' = EmptyDict
  /\ active_no_changes' = EmptyDict
  /\ log' = <<>>
  /\ last' = NoLast
  /\ hb_pending' = DatetimeMin
  /\ UNCHANGED <<state_file, heartbeat_cooldown, next_msg_id, permanent_ids, hb_sent,
                 exit_status, args, result>>

\* --------------------------------------------------------------- dispatch
\* One entry of the log: a transport call (op "edit" / "send") or the reset
\* of an accumulator (op "reset").  id: the edited message, or the id the
\* transport returned (None: the send failed).  silent: disable_notification
\* as requested by the caller.  shown: the deltas rendered into the text.
Ev(op, kind, id, silent, ok, shown) ==
  [op |-> op, kind |-> kind, id |-> id, silent |-> silent, ok |-> ok, shown |-> shown]

\* Faulty variant: the caller's guard forgets the dry run.
EditStepInDryRun(loc, mk, msg_id, ok, dry) ==
  IF msg_id # 0
    THEN [loc EXCEPT !.log = Append(@, Ev("edit", "", msg_id, FALSE, ok,
                                         Get(loc.diffs, mk, EmptyDict))),
                     !.edited = ok]
    ELSE [loc EXCEPT !.edited = FALSE]

\* edit_telegram_message behind the caller's guard "last_nc_id and not dry_run";
\* the text is formatted with show_stock_diffs=True from the current deltas.
EditStep(loc, mk, msg_id, ok, dry) ==
  IF msg_id # 0 /\ ~dry
    THEN [loc EXCEPT !.log = Append(@, Ev("edit", "", msg_id, FALSE, ok,
                                         Get(loc.diffs, mk, EmptyDict))),
                     !.edited = ok]
    ELSE [loc EXCEPT !.edited = FALSE]

\* self.stock_cumulative_diffs[msg_key] = {}
ResetStep(loc, mk) ==
  [loc EXCEPT !.diffs = Put(@, mk, EmptyDict),
              !.log = Append(@, Ev("reset", "", None, FALSE, TRUE, EmptyDict))]

\* Faulty variant: a failed send is tried once more at once.
SendStepRetries(loc, kind, silent, ok, dry) ==
  IF dry
    THEN [loc EXCEPT !.sent_id = None]
    ELSE [loc EXCEPT !.log = IF ok
                               THEN Append(@, Ev("send", kind, loc.next_id, silent, TRUE,
                                                 EmptyDict))
                               ELSE @ \o <<Ev("send", kind, None, silent, FALSE, EmptyDict),
                                           Ev("send", kind, loc.next_id, silent, TRUE,
                                              EmptyDict)>>,
                     !.sent_id = loc.next_id,
                     !.next_id = @ + 1,
                     !.permanent = IF kind = "changes" THEN @ \cup {loc.next_id} ELSE @]

\* send_telegram_message to one chat: nothing is sent in a dry run; a sent
\* message gets the transport's next id, a failed send returns no id.
SendStep(loc, kind, silent, ok, dry) ==
  IF dry
    THEN [loc EXCEPT !.sent_id = None]
    ELSE [loc EXCEPT !.log = Append(@, Ev("send", kind, IF ok THEN loc.next_id ELSE None,
                                         silent, ok, EmptyDict)),
                     !.sent_id = IF ok THEN loc.next_id ELSE None,
                     !.next_id = IF ok THEN @ + 1 ELSE @,
                     !.permanent = IF ok /\ kind = "changes"
                                     THEN @ \cup {loc.next_id} ELSE @]

\* Faulty variant: an id is tracked even when the send returned none.
TrackStepUnsent(loc, mk) ==
  [loc EXCEPT !.active = Put(@, mk, IF loc.sent_id # None THEN loc.sent_id
                                                           ELSE loc.next_id)]

\* if chat_id in sent: active_no_changes[msg_key] = sent[chat_id]
TrackStep(loc, mk) ==
  IF loc.sent_id # None
    THEN [loc EXCEPT !.active = Put(@, mk, loc.sent_id)]
    ELSE loc

\* Faulty variant: the accumulator is reset before the old placeholder is edited.
ChangesPathResetFirst(loc, mk, last_nc_id, t, dry, edit_ok, first_ok, second_ok) ==
  LET l1 == ResetStep(loc, mk)
      l2 == EditStep(l1, mk, last_nc_id, edit_ok, dry)
      l3 == SendStep(l2, "changes", FALSE, first_ok, dry)
      l4 == [l3 EXCEPT !.lnt = t]
      l5 == SendStep(l4, "baseline", TRUE, second_ok, dry)
  IN TrackStep(l5, mk)

\* run(), branch "if msg_ch": real changes for a `changes` recipient.
ChangesPath(loc, mk, last_nc_id, t, dry, edit_ok, first_ok, second_ok) ==
  LET l1 == EditStep(loc, mk, last_nc_id, edit_ok, dry)
      l2 == ResetStep(l1, mk)
      l3 == SendStep(l2, "changes", FALSE, first_ok, dry)
      l4 == [l3 EXCEPT !.lnt = t]
      l5 == SendStep(l4, "baseline", TRUE, second_ok, dry)
  IN TrackStep(l5, mk)

\* Faulty variant: the heartbeat does not stamp last_notification_time.
HeartbeatPathNoStamp(loc, mk, last_nc_id, t, dry, edit_ok, first_ok, second_ok) ==
  LET l1 == EditStep(loc, mk, last_nc_id, edit_ok, dry)
      l2 == ResetStep(l1, mk)
      l3 == SendStep(l2, "baseline", FALSE, first_ok, dry)
  IN TrackStep(l3, mk)

\* Faulty variant: the heartbeat baseline is sent silent, as after real changes.
HeartbeatPathSilent(loc, mk, last_nc_id, t, dry, edit_ok, first_ok, second_ok) ==
  LET l1 == EditStep(loc, mk, last_nc_id, edit_ok, dry)
      l2 == ResetStep(l1, mk)
      l3 == SendStep(l2, "baseline", TRUE, first_ok, dry)
      l4 == [l3 EXCEPT !.lnt = t]
  IN TrackStep(l4, mk)

\* run(), branch "elif reason == heartbeat or force-notify".
HeartbeatPath(loc, mk, last_nc_id, t, dry, edit_ok, first_ok, second_ok) ==
  LET l1 == EditStep(loc, mk, last_nc_id, edit_ok, dry)
      l2 == ResetStep(l1, mk)
      l3 == SendStep(l2, "baseline", FALSE, first_ok, dry)
      l4 == [l3 EXCEPT !.lnt = t]
  IN TrackStep(l4, mk)

\* Faulty variant: the silent path resets the accumulator like a checkpoint.
SilentPathResets(loc, mk, last_nc_id, t, dry, edit_ok, first_ok, second_ok) ==
  LET l1 == EditStep(loc, mk, last_nc_id, edit_ok, dry)
      l2 == IF l1.edited THEN [l1 EXCEPT !.active = Put(@, mk, last_nc_id)] ELSE l1
      l3 == ResetStep(l2, mk)
  IN IF l3.edited
       THEN l3
       ELSE TrackStep(SendStep(l3, "no_change", TRUE, first_ok, dry), mk)

\* Faulty variant: a successful edit does not keep the placeholder tracked.
SilentPathForgets(loc, mk, last_nc_id, t, dry, edit_ok, first_ok, second_ok) ==
  LET l1 == EditStep(loc, mk, last_nc_id, edit_ok, dry)
  IN IF l1.edited
       THEN l1
       ELSE TrackStep(SendStep(l1, "no_change", TRUE, first_ok, dry), mk)

\* run(), branch "else": no changes, no heartbeat due.
SilentPath(loc, mk, last_nc_id, t, dry, edit_ok, first_ok, second_ok) ==
  LET l1 == EditStep(loc, mk, last_nc_id, edit_ok, dry)
      l2 == IF l1.edited THEN [l1 EXCEPT !.active = Put(@, mk, last_nc_id)] ELSE l1
  IN IF l2.edited
       THEN l2
       ELSE TrackStep(SendStep(l2, "no_change", TRUE, first_ok, dry), mk)

\* run(), branch "if rpt_type == 'full'": always a fresh message.
FullPath(loc, mk, last_nc_id, t, dry, edit_ok, first_ok, second_ok) ==
  LET l1 == SendStep(loc, "full", FALSE, first_ok, dry)
  IN IF l1.sent_id # None
       THEN [l1 EXCEPT !.sent = Put(@, mk, l1.sent_id)]
       ELSE l1

\* ------------------------------------------------------ the recipient loop
CurRecipient == RECIPIENTS[idx]

CurKey == MsgKey(CurRecipient)

CurProducts == RecProducts(products, CurRecipient)

\* self._update_stock_counters(rec_products, msg_key)
DiffsAfterUpdate ==
  Put(stock_cumulative_diffs, CurKey,
      UpdateStockCounters(CurProducts, Get(stock_cumulative_diffs, CurKey, EmptyDict),
                          previous_state, RESTOCK_THRESHOLD))

\* rec_changes = self.detect_changes(rec_products)
CurChanges == DetectChanges(CurProducts, previous_state)

\* should_notify, reason: the scheduler's answer, overridden by force_notify.
Decision ==
  IF force_notify
    THEN [notify |-> TRUE, reason |-> "force-notify"]
    ELSE ShouldNotify(HasChanges(CurChanges), now, last_notification_time,
                      heartbeat_cooldown, HEARTBEAT_TIMES)

\* last_nc_id = self.last_messages.get('_no_changes', {}).get(msg_key); 0: none
LastNcId == Get(last_messages.no_changes, CurKey, 0)

\* The branch of the loop body taken for the current recipient.
Branch ==
  IF CurRecipient.type = "full" THEN "full"
  ELSE IF CurRecipient.type # "changes" THEN "none"
  ELSE IF HasChanges(CurChanges) THEN "changes"
  ELSE IF Decision.reason \in {"heartbeat", "force-notify"} THEN "heartbeat"
  ELSE "silent"

LocAtEntry ==
  [diffs |-> DiffsAfterUpdate, lnt |-> last_notification_time,
   active |-> active_no_changes, sent |-> new_last_messages,
   next_id |-> next_msg_id, permanent |-> permanent_ids,
   log |-> <<>>, edited |-> FALSE, sent_id |-> None]

\* The transport calls of a log that failed.
Fails(lg) == Cardinality({i \in 1..Len(lg) : ~lg[i].ok})

\* The effect of one loop iteration whose dispatch ended in loc.
Iterate(loc, branch) ==
  /\ rare + Fails(loc.log) <= MaxRare
  /\ rare' = rare + Fails(loc.log)
  /\ stock_cumulative_diffs' = loc.diffs
  /\ last_notification_time' = loc.lnt
  /\ active_no_changes' = loc.active
  /\ new_last_messages' = loc.sent
  /\ next_msg_id' = loc.next_id
  /\ permanent_ids' = loc.permanent
  /\ log' = loc.log
  /\ last' = [msg_key |-> CurKey, type |-> CurRecipient.type,
              has_changes |-> HasChanges(CurChanges), reason |-> Decision.reason,
              branch |-> branch,
              slot |-> DueSlot(now, last_notification_time, HEARTBEAT_TIMES),
              hb_before |-> IF hb_pending # DatetimeMin THEN hb_pending ELSE hb_sent,
              last_nc_id |-> LastNcId, diffs |-> DiffsAfterUpdate[CurKey],
              changes |-> CurChanges]
  /\ hb_pending' = IF branch = "heartbeat" /\ Decision.reason = "heartbeat" /\ ~dry_run
                     THEN now ELSE hb_pending
  /\ idx' = idx + 1
  /\ UNCHANGED <<state_file, previous_state, last_messages, heartbeat_cooldown, pc,
                 runs, dry_run, force_notify, now, products, hb_sent,
                 exit_status, args, result>>

InLoop == pc = "loop" /\ idx \in 1..Len(RECIPIENTS)

ProcessFull ==
  /\ InLoop /\ Branch = "full"
  /\ \E a \in BOOLEAN :
       Iterate(FullPath(LocAtEntry, CurKey, LastNcId, now, dry_run, FALSE, a, FALSE), "full")

ProcessChanges ==
  /\ InLoop /\ Branch = "changes"
  /\ \E e, a, b \in BOOLEAN :
       Iterate(ChangesPath(LocAtEntry, CurKey, LastNcId, now, dry_run, e, a, b), "changes")

ProcessHeartbeat ==
  /\ InLoop /\ Branch = "heartbeat"
  /\ \E e, a \in BOOLEAN :
       Iterate(HeartbeatPath(LocAtEntry, CurKey, LastNcId, now, dry_run, e, a, FALSE), "heartbeat")

ProcessSilent ==
  /\ InLoop /\ Branch = "silent"
  /\ \E e, a \in BOOLEAN :
       Iterate(SilentPath(LocAtEntry, CurKey, LastNcId, now, dry_run, e, a, FALSE), "silent")

\* ------------------------------------------------------------ end of a run
\* state_to_save (State V2)
StateToSave ==
  [version |-> 2, products |-> products,
   last_messages |-> [sent |-> new_last_messages, no_changes |-> active_no_changes],
   stock_cumulative_diffs |-> stock_cumulative_diffs,
   last_notification_time |-> IsoFormat(last_notification_time)]

\* The process ends: the monitor object is gone.
ProcessExit ==
  /\ pc' = "idle"
  /\ previous_state' = EmptyDict
  /\ last_messages' = NoMessages
  /\ stock_cumulative_diffs' = EmptyDict
  /\ last_notification_time' = DatetimeMin
  /\ products' = EmptyDict
  /\ idx' = 0
  /\ new_last_messages' = EmptyDict
  /\ active_no_changes' = EmptyDict
  /\ hb_pending' = DatetimeMin
  /\ dry_run' = FALSE
  /\ force_notify' = FALSE
  /\ UNCHANGED <<heartbeat_cooldown, runs, now, args, result>>

\* run(), after the loop: _save_state unless dry_run, then a normal return.
FinishRun ==
  /\ pc = "loop" /\ idx = Len(RECIPIENTS) + 1
  /\ state_file' = IF dry_run THEN state_file ELSE StateToSave
  /\ hb_sent' = IF dry_run \/ hb_pending = DatetimeMin THEN hb_sent ELSE hb_pending
  /\ log' = <<>>
  /\ last' = NoLast
  /\ exit_status' = "ok"
  /\ ProcessExit
  /\ UNCHANGED <<next_msg_id, permanent_ids, rare>>

LocAtEntryForError ==
  [diffs |-> stock_cumulative_diffs, lnt |-> last_notification_time,
   active |-> active_no_changes, sent |-> new_last_messages,
   next_id |-> next_msg_id, permanent |-> permanent_ids,
   log |-> <<>>, edited |-> FALSE, sent_id |-> None]

\* admin_chats = chats of the recipients of type 'full'
AdminChats == {RECIPIENTS[i].chat_id : i \in {j \in 1..Len(RECIPIENTS) : RECIPIENTS[j].type = "full"}}

\* Faulty variant: the error handler saves whatever the run has reached.
RaiseErrorSaves ==
  /\ pc = "loop"
  /\ state_file' = IF dry_run THEN state_file ELSE StateToSave
  /\ log' = <<>>
  /\ last' = NoLast
  /\ exit_status' = "raised"
  /\ ProcessExit
  /\ UNCHANGED <<next_msg_id, permanent_ids, hb_sent, rare>>

\* Faulty variant: a failure of the error report replaces the original error.
RaiseErrorReportEscapes ==
  /\ pc = "loop"
  /\ \E ok \in BOOLEAN :
       LET loc == IF AdminChats # {}
                    THEN SendStep([LocAtEntryForError EXCEPT !.log = <<>>], "error", FALSE, ok, dry_run)
                    ELSE LocAtEntryForError
       IN /\ rare + Fails(loc.log) <= MaxRare
          /\ rare' = rare + Fails(loc.log)
          /\ log' = loc.log
          /\ next_msg_id' = loc.next_id
          /\ exit_status' = IF Fails(loc.log) > 0 THEN "send_failed" ELSE "raised"
  /\ last' = NoLast
  /\ ProcessExit
  /\ UNCHANGED <<state_file, permanent_ids, hb_sent>>

\* run(), "except Exception": an error raised anywhere before the save is
\* reported to the admin chats (unless dry_run) and re-raised.
RaiseError ==
  /\ pc = "loop"
  /\ \E ok \in BOOLEAN :
       LET loc == IF AdminChats # {}
                    THEN SendStep([LocAtEntryForError EXCEPT !.log = <<>>], "error", FALSE, ok, dry_run)
                    ELSE LocAtEntryForError
       IN /\ rare + Fails(loc.log) <= MaxRare
          /\ rare' = rare + Fails(loc.log)
          /\ log' = loc.log
          /\ next_msg_id' = loc.next_id
  /\ last' = NoLast
  /\ exit_status' = "raised"
  /\ ProcessExit
  /\ UNCHANGED <<state_file, permanent_ids, hb_sent>>

Next ==
  \/ StartRun
  \/ ProcessFull
  \/ ProcessChanges
  \/ ProcessHeartbeat
  \/ ProcessSilent
  \/ FinishRun
  \/ RaiseError

Spec == Init /\ [][Next]_vars

\* ------------------------------------------------ the functions on their own
\* Everything of the process at rest, for the specifications that apply one
\* function to drawn arguments.
AtRest ==
  /\ state_file = NoFile
  /\ previous_state = EmptyDict
  /\ last_messages = NoMessages
  /\ stock_cumulative_diffs = EmptyDict
  /\ last_notification_time = DatetimeMin
  /\ heartbeat_cooldown = DefaultCooldownHours * 60
  /\ runs = 0
  /\ dry_run = FALSE
  /\ force_notify = FALSE
  /\ now = 0
  /\ products = EmptyDict
  /\ idx = 0
  /\ new_last_messages = EmptyDict
  /\ active_no_changes = EmptyDict
  /\ next_msg_id = 1
  /\ log = <<>>
  /\ last = NoLast
  /\ permanent_ids = {}
  /\ hb_pending = DatetimeMin
  /\ hb_sent = DatetimeMin
  /\ rare = 0
  /\ exit_status = ""

RestUnchanged ==
  UNCHANGED <<state_file, previous_state, last_messages, stock_cumulative_diffs,
              last_notification_time, heartbeat_cooldown, runs, dry_run, force_notify,
              now, products, idx, new_last_messages, active_no_changes, next_msg_id,
              log, last, permanent_ids, hb_pending, hb_sent, rare,
              exit_status, args>>

\* Products as detect_changes sees them: price_value is clean_price(price),
\* None when the text does not parse or when an old state lacks the field.
DetectKeys == {"a", "b"}

DetectItem(price, pv, status, date, stock) ==
  [capacity |-> 280, price |-> price, price_value |-> pv, stock_status |-> status,
   delivery_date |-> date, real_stock |-> stock]

DetectItems ==
  {DetectItem(50, 50, "in_stock", "none", 100),
   DetectItem(50, 50, "in_stock", "none", 90),
   DetectItem(50, None, "in_stock", "none", 100),
   DetectItem(55, 55, "in_stock", "none", 100),
   DetectItem(55, None, "in_stock", "none", 100),
   DetectItem(50, 50, "preorder", "d1", 100),
   DetectItem(50, 50, "preorder", "d2", None)}

Snapshots == UNION {[S -> DetectItems] : S \in SUBSET DetectKeys}

InitDetect ==
  /\ AtRest
  /\ pc = "call"
  /\ args \in {[current |-> c, previous |-> p] : c \in Snapshots, p \in Snapshots}
  /\ result = <<>>

\* monitor.previous_state = previous; monitor.detect_changes(current)
ApplyDetect ==
  /\ pc = "call"
  /\ result' = DetectChanges(args.current, args.previous)
  /\ pc' = "returned"
  /\ RestUnchanged

NextDetect == ApplyDetect

SpecDetect == InitDetect /\ [][NextDetect]_vars

\* Faulty variant: the gap to the next slot ignores the wrap over midnight.
GapAfterNoWrap(s, slots) ==
  IF {t \in slots : t > s} = {}
    THEN MinutesPerDay
    ELSE LET gaps == {t - s : t \in {u \in slots : u > s}}
         IN CHOOSE g \in gaps : \A h \in gaps : g <= h

\* The cooldown a list of heartbeat slots implies: the smallest gap between
\* consecutive slots on the 24-hour clock, the whole day for a single slot
\* (in minutes).
GapAfter(s, slots) ==
  IF slots \ {s} = {}
    THEN MinutesPerDay
    ELSE LET gaps == {(t - s) % MinutesPerDay : t \in slots \ {s}}
         IN CHOOSE g \in gaps : \A h \in gaps : g <= h

CalculateAutoCooldown(heartbeat_times) ==
  LET slots == {heartbeat_times[i] : i \in 1..Len(heartbeat_times)}
      gaps == {GapAfter(s, slots) : s \in slots}
  IN CHOOSE g \in gaps : \A h \in gaps : g <= h

SlotLists == {<<480>>, <<480, 960>>, <<480, 1200>>, <<420, 720, 1080>>}

NotifyDays == 0..MaxNotifyDay

\* 07:30, 08:00, 08:05, 12:00, 16:10, 16:30, 20:00
NotifyTimesOfDay == {450, 480, 485, 720, 970, 990, 1200}

NotifyTimes == {Combine(d, t) : d \in NotifyDays, t \in NotifyTimesOfDay}

NotifyArgs ==
  {[has_changes |-> h, now |-> n, last |-> l, cooldown |-> c, heartbeat_times |-> hs] :
     h \in BOOLEAN, n \in NotifyTimes, l \in NotifyTimes \cup {DatetimeMin},
     c \in {DefaultCooldownHours * 60} \cup {CalculateAutoCooldown(x) : x \in SlotLists},
     hs \in SlotLists}

InitNotify ==
  /\ AtRest
  /\ pc = "call"
  /\ args \in {a \in NotifyArgs :
                 /\ a.last <= a.now
                 /\ a.cooldown \in {DefaultCooldownHours * 60,
                                    CalculateAutoCooldown(a.heartbeat_times)}}
  /\ result = <<>>

\* monitor._should_notify(has_changes) at a mocked datetime.now()
ApplyNotify ==
  /\ pc = "call"
  /\ result' = ShouldNotify(args.has_changes, args.now, args.last, args.cooldown,
                            args.heartbeat_times)
  /\ pc' = "returned"
  /\ RestUnchanged

NextNotify == ApplyNotify

SpecNotify == InitNotify /\ [][NextNotify]_vars

\* ================================================================= claims
EventsOf(op) == {i \in 1..Len(log) : log[i].op = op}

SendsOf(kind) == {i \in 1..Len(log) : log[i].op = "send" /\ log[i].kind = kind}

\* The loop body has just run for a recipient.
Iterated == pc = "loop" /\ idx >= 2

AllDiffMaps ==
  {stock_cumulative_diffs[mk] : mk \in DOMAIN stock_cumulative_diffs}
    \cup {state_file.stock_cumulative_diffs[mk] : mk \in DOMAIN state_file.stock_cumulative_diffs}

\* C1: for every recipient and every item, in memory after every update and
\* in the persisted state, the accumulated decrease is <= 0 and the
\* accumulated increase is >= 0, whatever stock values and resets preceded.
C1_AccumulatorSigns ==
  \A d \in AllDiffMaps : \A k \in DOMAIN d : d[k].decrease <= 0 /\ d[k].increase >= 0

\* An update has left both a sale and a restock in one item's pair.
C1_Witness ==
  /\ Iterated
  /\ \E k \in DOMAIN last.diffs : last.diffs[k].decrease < 0 /\ last.diffs[k].increase > 0

\* The notification the recipient of the last iteration received, if any.
Received ==
  \/ last.branch = "changes" /\ \E i \in SendsOf("changes") : log[i].ok
  \/ last.branch = "heartbeat" /\ \E i \in SendsOf("baseline") : log[i].ok

\* C2 as stated: in a run that is neither dry nor forced, the accumulator of
\* a `changes` recipient is reset exactly when the recipient receives a new
\* "changes" or heartbeat notification.
C2_ResetIffReceived ==
  (Iterated /\ ~dry_run /\ ~force_notify /\ last.type = "changes") =>
    ((EventsOf("reset") # {}) <=> Received)

\* C2 amended: the accumulator of a recipient is reset exactly when the loop
\* takes the changes branch or the heartbeat/forced branch for it, whether or
\* not the notification is delivered; after those branches it is empty, after
\* the silent branch and the full report it holds the updated deltas.
C2_ResetIffCheckpointBranch ==
  Iterated =>
    /\ (EventsOf("reset") # {}) <=> (last.branch \in {"changes", "heartbeat"})
    /\ last.msg_key \in DOMAIN stock_cumulative_diffs
    /\ stock_cumulative_diffs[last.msg_key] =
         IF last.branch \in {"changes", "heartbeat"} THEN EmptyDict ELSE last.diffs

\* A silent iteration has kept non-empty deltas.
C2_Witness ==
  /\ Iterated /\ last.branch = "silent" /\ ~dry_run
  /\ last.diffs # EmptyDict
  /\ stock_cumulative_diffs[last.msg_key] = last.diffs

\* The log of a checkpoint: the edit of the tracked placeholder, if any,
\* showing the deltas as updated, then the reset.
CheckpointPrefix ==
  IF last.last_nc_id # 0
    THEN <<Ev("edit", "", last.last_nc_id, FALSE, log[1].ok, last.diffs),
           Ev("reset", "", None, FALSE, TRUE, EmptyDict)>>
    ELSE <<Ev("reset", "", None, FALSE, TRUE, EmptyDict)>>

TrackedIds ==
  {active_no_changes[mk] : mk \in DOMAIN active_no_changes}
    \cup {last_messages.no_changes[mk] : mk \in DOMAIN last_messages.no_changes}
    \cup {state_file.last_messages.no_changes[mk] :
            mk \in DOMAIN state_file.last_messages.no_changes}

\* C3: in a run that is not a dry run, the changes branch performs, in this
\* order: the edit of the tracked placeholder (if one is tracked) with the
\* deltas not yet reset, the reset, the send of the "changes" message, the
\* send of the silent baseline message, whose id (if sent) becomes the
\* tracked placeholder; the id of a "changes" message is never tracked and
\* never the target of an edit.
C3_ChangesSequence ==
  /\ permanent_ids \cap TrackedIds = {}
  /\ \A i \in EventsOf("edit") : log[i].id \notin permanent_ids
  /\ (Iterated /\ ~dry_run /\ last.branch = "changes") =>
       LET n == Len(CheckpointPrefix)
       IN /\ Len(log) = n + 2
          /\ SubSeq(log, 1, n) = CheckpointPrefix
          /\ log[n + 1].op = "send" /\ log[n + 1].kind = "changes"
          /\ log[n + 2].op = "send" /\ log[n + 2].kind = "baseline" /\ log[n + 2].silent
          /\ stock_cumulative_diffs[last.msg_key] = EmptyDict
          /\ IF log[n + 2].ok
               THEN Get(active_no_changes, last.msg_key, 0) = log[n + 2].id
               ELSE last.msg_key \notin DOMAIN active_no_changes

\* Real changes, a tracked placeholder with deltas to fix in it, all calls ok.
C3_Witness ==
  /\ Iterated /\ ~dry_run /\ last.branch = "changes"
  /\ last.last_nc_id # 0 /\ last.diffs # EmptyDict
  /\ Len(log) = 4 /\ \A i \in 1..4 : log[i].ok

\* C4: the state file changes only in the step that ends a run normally,
\* after the last recipient, and then to the state the run has built; a run
\* that raises leaves the file as it was.
C4_SaveOnceAtEnd ==
  [][/\ (state_file' # state_file) =>
          /\ pc = "loop" /\ idx = Len(RECIPIENTS) + 1 /\ ~dry_run
          /\ pc' = "idle" /\ exit_status' = "ok"
          /\ state_file' = StateToSave
     /\ (pc = "loop" /\ pc' = "idle" /\ exit_status' = "raised") =>
          state_file' = state_file]_vars

\* A run has raised after sending messages while nothing was ever saved.
C4_Witness ==
  /\ pc = "idle" /\ exit_status = "raised"
  /\ state_file = NoFile
  /\ next_msg_id > 2

\* detect_changes has returned for the drawn snapshots.
DetectReturned == pc = "returned" /\ "current" \in DOMAIN args

SameItems(c, p) ==
  /\ DOMAIN c = DOMAIN p
  /\ \A k \in DOMAIN c :
       /\ c[k].price = p[k].price
       /\ c[k].stock_status = p[k].stock_status
       /\ c[k].delivery_date = p[k].delivery_date

\* C5: when the current items equal the previous snapshot item for item (the
\* same keys, and per key the same price, availability state and delivery
\* date), detect_changes returns empty new, removed, price-changed and
\* status-changed lists.
C5_NoChangeOnEqualSnapshots ==
  (DetectReturned /\ SameItems(args.current, args.previous)) =>
    /\ result.new = {} /\ result.removed = {}
    /\ result.price_changes = {} /\ result.status_changes = {}

\* Two equal non-empty snapshots that differ only in what the detector must
\* ignore (the real stock, a missing price_value).
C5_Witness ==
  /\ DetectReturned /\ SameItems(args.current, args.previous)
  /\ DOMAIN args.current = DetectKeys
  /\ args.current["a"].real_stock # args.previous["a"].real_stock
  /\ args.current["b"].price_value # args.previous["b"].price_value
  /\ ~HasChanges(result)

\* _should_notify has returned for the drawn arguments.
NotifyReturned == pc = "returned" /\ "now" \in DOMAIN args

\* Some slot of today is reached and last lies strictly before it.
SlotDue(a) ==
  \E i \in 1..Len(a.heartbeat_times) :
    /\ TimeOf(a.now) >= a.heartbeat_times[i]
    /\ a.last < Combine(DateOf(a.now), a.heartbeat_times[i])

\* Slots [08:00, 16:00] with the cooldown derived from them, on the last day.
ExampleArgs(now_tod, last_tod) ==
  [has_changes |-> FALSE, now |-> Combine(MaxNotifyDay, now_tod),
   last |-> Combine(MaxNotifyDay, last_tod),
   cooldown |-> CalculateAutoCooldown(<<480, 960>>), heartbeat_times |-> <<480, 960>>]

\* C6: without changes, when less than the cooldown has elapsed since the
\* last notification time, _should_notify returns (False, "cooldown"), also
\* when a slot of today is reached and not yet served; with slots
\* [08:00, 16:00] and the derived cooldown, 20:00 after 16:10 gives
\* (False, "cooldown").
C6_CooldownSuppresses ==
  NotifyReturned =>
    /\ (~args.has_changes /\ args.now - args.last < args.cooldown) =>
         result = [notify |-> FALSE, reason |-> "cooldown"]
    /\ (args = ExampleArgs(1200, 970)) =>
         result = [notify |-> FALSE, reason |-> "cooldown"]

\* A slot is due (08:00 reached at 08:05, last at 07:30) inside the cooldown.
C6_Witness ==
  /\ NotifyReturned /\ ~args.has_changes
  /\ args.now - args.last < args.cooldown
  /\ SlotDue(args)
  /\ result.reason = "cooldown"

\* C7: without changes and with the cooldown elapsed, _should_notify returns
\* (True, "heartbeat") exactly when some slot s has time-of-day(now) >= s and
\* last strictly before today at s, and (False, "silent") otherwise; with
\* slots [08:00, 16:00] and the derived cooldown, 16:30 after 08:05 gives
\* (True, "heartbeat"), and 07:30 gives (False, "silent").
C7_HeartbeatIffSlotDue ==
  NotifyReturned =>
    /\ (~args.has_changes /\ args.now - args.last >= args.cooldown) =>
         result = IF SlotDue(args)
                    THEN [notify |-> TRUE, reason |-> "heartbeat"]
                    ELSE [notify |-> FALSE, reason |-> "silent"]
    /\ (args = ExampleArgs(990, 485)) =>
         result = [notify |-> TRUE, reason |-> "heartbeat"]
    /\ (/\ ~args.has_changes /\ args.heartbeat_times = <<480, 960>>
        /\ TimeOf(args.now) = 450 /\ args.now - args.last >= args.cooldown) =>
         result = [notify |-> FALSE, reason |-> "silent"]

\* The 16:30 check after the 08:05 notification has answered "heartbeat".
C7_Witness ==
  /\ NotifyReturned /\ args = ExampleArgs(990, 485)
  /\ result.reason = "heartbeat"

\* C8: when a check answers "heartbeat" on account of a slot, no heartbeat
\* was sent before at or after that slot's timestamp of the day, neither in a
\* run whose state was persisted nor earlier in this run: a slot of a day is
\* served at most once.
C8_HeartbeatOncePerSlot ==
  (Iterated /\ last.branch = "heartbeat" /\ last.reason = "heartbeat") =>
    /\ last.slot # 0
    /\ last.hb_before < Combine(DateOf(now), HEARTBEAT_TIMES[last.slot])

\* A second heartbeat of the day, for the second slot, after the first slot's.
C8_Witness ==
  /\ Iterated /\ last.branch = "heartbeat" /\ last.reason = "heartbeat" /\ ~dry_run
  /\ last.slot = 2
  /\ last.hb_before # DatetimeMin /\ DateOf(last.hb_before) = DateOf(now)

\* C9: in a run that is not a dry run, the silent branch edits the tracked
\* placeholder, if one is tracked; after a successful edit it keeps that id
\* tracked and sends nothing; with no placeholder or a failed edit it sends
\* exactly one message, requested silent, and tracks the id that message got.
C9_SilentEditOrResend ==
  (Iterated /\ ~dry_run /\ last.branch = "silent") =>
    LET tried == IF last.last_nc_id # 0 THEN 1 ELSE 0
    IN /\ ~last.has_changes /\ last.reason \in {"cooldown", "silent"}
       /\ tried = 1 =>
            /\ Len(log) >= 1 /\ log[1].op = "edit" /\ log[1].id = last.last_nc_id
            /\ log[1].shown = last.diffs
       /\ IF tried = 1 /\ log[1].ok
            THEN /\ Len(log) = 1
                 /\ Get(active_no_changes, last.msg_key, 0) = last.last_nc_id
            ELSE /\ Len(log) = tried + 1
                 /\ log[tried + 1].op = "send" /\ log[tried + 1].kind = "no_change"
                 /\ log[tried + 1].silent
                 /\ IF log[tried + 1].ok
                      THEN /\ Get(active_no_changes, last.msg_key, 0) = log[tried + 1].id
                           /\ log[tried + 1].id # last.last_nc_id
                      ELSE last.msg_key \notin DOMAIN active_no_changes

\* The edit of the tracked placeholder failed and the fallback was tracked.
C9_Witness ==
  /\ Iterated /\ ~dry_run /\ last.branch = "silent"
  /\ last.last_nc_id # 0
  /\ Len(log) = 2 /\ ~log[1].ok /\ log[2].ok
  /\ Get(active_no_changes, last.msg_key, 0) = log[2].id

\* C10: in a run that is not a dry run, the heartbeat/forced branch (no real
\* changes) edits the tracked placeholder, if any, with the deltas not yet
\* reset, then resets the accumulator, sends no "changes" message and sends
\* exactly one baseline message, not requested silent, whose id (if sent)
\* becomes the tracked placeholder.
C10_HeartbeatSequence ==
  (Iterated /\ ~dry_run /\ last.branch = "heartbeat") =>
    LET n == Len(CheckpointPrefix)
    IN /\ ~last.has_changes /\ last.reason \in {"heartbeat", "force-notify"}
       /\ Len(log) = n + 1
       /\ SubSeq(log, 1, n) = CheckpointPrefix
       /\ SendsOf("changes") = {}
       /\ log[n + 1].op = "send" /\ log[n + 1].kind = "baseline" /\ ~log[n + 1].silent
       /\ stock_cumulative_diffs[last.msg_key] = EmptyDict
       /\ IF log[n + 1].ok
            THEN Get(active_no_changes, last.msg_key, 0) = log[n + 1].id
            ELSE last.msg_key \notin DOMAIN active_no_changes

\* A scheduled heartbeat with a tracked placeholder, every call ok.
C10_Witness ==
  /\ Iterated /\ ~dry_run /\ last.branch = "heartbeat" /\ last.reason = "heartbeat"
  /\ last.last_nc_id # 0
  /\ Len(log) = 3 /\ \A i \in 1..3 : log[i].ok

\* ---------------------------------------------- the accumulator on its own
\* One item observed with a sequence of real stocks, each observation folded
\* in by _update_stock_counters against the previous observation.
StockValues == {100, 90, 95, 190, 2095}

StockSequences == UNION {[1..n -> StockValues] : n \in 1..MaxObserved}

CounterItem(stock) ==
  [capacity |-> 280, price |-> 50, price_value |-> 50, stock_status |-> "in_stock",
   delivery_date |-> "none", real_stock |-> stock]

InitCounters ==
  /\ AtRest
  /\ pc = "call"
  /\ args \in {[stocks |-> s, restock_threshold |-> RESTOCK_THRESHOLD] : s \in StockSequences}
  /\ result = [seen |-> 0, previous_state |-> EmptyDict, diffs |-> EmptyDict,
               before |-> ZeroDiffs]

\* monitor.previous_state = {key: previous item};
\* monitor._update_stock_counters([test_item], "test_key")
ApplyUpdate ==
  /\ pc = "call"
  /\ result.seen < Len(args.stocks)
  /\ LET current_products == [k \in {"a"} |-> CounterItem(args.stocks[result.seen + 1])]
     IN result' = [seen |-> result.seen + 1,
                   previous_state |-> current_products,
                   diffs |-> UpdateStockCounters(current_products, result.diffs,
                                                 result.previous_state,
                                                 args.restock_threshold),
                   before |-> Get(result.diffs, "a", ZeroDiffs)]
  /\ pc' = IF result.seen + 1 = Len(args.stocks) THEN "returned" ELSE "call"
  /\ RestUnchanged

NextCounters == ApplyUpdate

SpecCounters == InitCounters /\ [][NextCounters]_vars

\* An update with known previous and current stock has just been applied.
Updated == "stocks" \in DOMAIN args /\ result.seen >= 2

UpdateDelta == args.stocks[result.seen] - args.stocks[result.seen - 1]

AfterUpdate == Get(result.diffs, "a", ZeroDiffs)

\* C11: one update with known previous stock p and current stock c changes
\* one bucket only: delta = c - p < 0 is added to decrease; a delta from 0 to
\* the threshold is added to decrease, clamped to at most 0; a delta above
\* the threshold is added to increase.  With threshold 100 the stocks
\* 100, 90, 95, 2095 give {decrease: -5, increase: 2000}.
C11_OneBucketPerDelta ==
  /\ Updated =>
       /\ UpdateDelta < 0 =>
            AfterUpdate = [decrease |-> result.before.decrease + UpdateDelta,
                           increase |-> result.before.increase]
       /\ (0 <= UpdateDelta /\ UpdateDelta <= args.restock_threshold) =>
            AfterUpdate = [decrease |-> Min(result.before.decrease + UpdateDelta, 0),
                           increase |-> result.before.increase]
       /\ UpdateDelta > args.restock_threshold =>
            AfterUpdate = [decrease |-> result.before.decrease,
                           increase |-> result.before.increase + UpdateDelta]
  /\ ("stocks" \in DOMAIN args /\ args.stocks = <<100, 90, 95, 2095>> /\ result.seen = 4) =>
       AfterUpdate = [decrease |-> -5, increase |-> 2000]

\* The sequence of the example has been folded in.
C11_Witness ==
  /\ Updated /\ pc = "returned"
  /\ args.stocks = <<100, 90, 95, 2095>> /\ args.restock_threshold = 100
  /\ AfterUpdate = [decrease |-> -5, increase |-> 2000]

\* ------------------------------------- the detector on annotated snapshots
\* Snapshots whose item dicts carry a "low-stock notified" flag, next to a
\* "quietly removed" key set and a small-stock threshold: detect_changes takes
\* current_products, reads self.previous_state and nothing else.
SmallStockThreshold == 10

QuietItem(status, date, stock, flag) ==
  [capacity |-> 280, price |-> 50, price_value |-> 50, stock_status |-> status,
   delivery_date |-> date, real_stock |-> stock, low_stock_notified |-> flag]

QuietItems(k) ==
  IF k = "a"
    THEN {QuietItem(sd[1], sd[2], n, f) :
            sd \in {<<"in_stock", "none">>, <<"preorder", "d1">>, <<"preorder", "d2">>},
            n \in {3, 500}, f \in BOOLEAN}
    ELSE {QuietItem("in_stock", "none", 500, FALSE), QuietItem("in_stock", "none", 3, TRUE)}

QuietSnapshots ==
  {s \in UNION {[S -> UNION {QuietItems(k) : k \in DetectKeys}] : S \in SUBSET DetectKeys} :
     \A k \in DOMAIN s : s[k] \in QuietItems(k)}

InitDetectQuiet ==
  /\ AtRest
  /\ pc = "call"
  /\ args \in {[current |-> c, previous |-> p, quietly_removed |-> q,
                small_stock_threshold |-> SmallStockThreshold] :
                 c \in QuietSnapshots, p \in QuietSnapshots, q \in {{}, {"a"}}}
  /\ result = <<>>

\* monitor.previous_state = previous; monitor.detect_changes(current)
ApplyDetectQuiet ==
  /\ pc = "call"
  /\ result' = DetectChanges(args.current, args.previous)
  /\ pc' = "returned"
  /\ RestUnchanged

NextDetectQuiet == ApplyDetectQuiet

SpecDetectQuiet == InitDetectQuiet /\ [][NextDetectQuiet]_vars

QuietReturned == pc = "returned" /\ "quietly_removed" \in DOMAIN args

OnlyCurrent == (DOMAIN args.current) \ (DOMAIN args.previous)

OnlyPrevious == (DOMAIN args.previous) \ (DOMAIN args.current)

InBoth == (DOMAIN args.current) \cap (DOMAIN args.previous)

\* A key of the current snapshot that reappears at small stock after a quiet
\* removal.
QuietReappearance(k) ==
  /\ args.current[k].real_stock <= args.small_stock_threshold
  /\ k \in args.quietly_removed

\* The "quietly removed" set of the returned changeset, empty when the
\* changeset has none.
ReturnedQuietlyRemoved ==
  IF "quietly_removed" \in DOMAIN result THEN result.quietly_removed ELSE {}

StateOrDateDiffers(k) ==
  \/ args.current[k].stock_status # args.previous[k].stock_status
  \/ args.current[k].delivery_date # args.previous[k].delivery_date

\* A change into in_stock / preorder at small stock of an item already flagged.
MarginalChange(k) ==
  /\ args.current[k].stock_status \in {"in_stock", "preorder"}
  /\ args.current[k].real_stock <= args.small_stock_threshold
  /\ Flagged(args.previous[k])

TransportCalls(lg) == {i \in 1..Len(lg) : lg[i].op \in {"send", "edit"}}

\* C15: in a dry run no step makes a transport send or edit call, for any
\* recipient, on any branch and in the error report, and no step writes the
\* state file.
C15_DryRunTouchesNothing ==
  [][dry_run =>
       /\ TransportCalls(log') = {}
       /\ next_msg_id' = next_msg_id
       /\ permanent_ids' = permanent_ids
       /\ state_file' = state_file]_vars

\* A dry run has taken the changes branch for a recipient whose placeholder
\* is tracked, after a run that saved its state.
C15_Witness ==
  /\ Iterated /\ dry_run
  /\ last.branch = "changes" /\ last.last_nc_id # 0
  /\ state_file.version = 2
  /\ log = <<Ev("reset", "", None, FALSE, TRUE, EmptyDict)>>

\* A notification that reached the recipient is in the log: a "changes"
\* message, or a baseline sent with sound.
Delivered(lg) ==
  \E i \in 1..Len(lg) :
    /\ lg[i].op = "send" /\ lg[i].ok
    /\ lg[i].kind = "changes" \/ (lg[i].kind = "baseline" /\ ~lg[i].silent)

\* C16: in a run that is not a dry run, an iteration of the recipient loop
\* advances last_notification_time (which the run then saves) only when a
\* "changes" or heartbeat notification was delivered in it.
C16_StampOnlyOnDelivery ==
  [][(pc = "loop" /\ pc' = "loop" /\ ~dry_run
        /\ last_notification_time' # last_notification_time) => Delivered(log')]_vars

\* Faulty variant: quiet mode is not looked at; the heartbeat interval rules.
NotifierShouldNotifyNoQuietMode(quiet_mode, has_changes, last_ts, now_ts, heartbeat_interval) ==
  IF has_changes
    THEN [notify |-> TRUE, reason |-> "changes"]
    ELSE IF last_ts = None
      THEN [notify |-> TRUE, reason |-> "first_run"]
      ELSE IF now_ts - last_ts >= heartbeat_interval
        THEN [notify |-> TRUE, reason |-> "heartbeat"]
        ELSE [notify |-> FALSE, reason |-> "cooldown"]

\* ------------------------------------------- both schedulers on their own
\* TelegramNotifier._should_notify(recipient_config, has_changes,
\* last_notification_time) at time now; last is None when there was no
\* notification yet, heartbeat_interval is in minutes.
NotifierShouldNotify(quiet_mode, has_changes, last_ts, now_ts, heartbeat_interval) ==
  IF has_changes
    THEN [notify |-> TRUE, reason |-> "changes"]
    ELSE IF ~quiet_mode
      THEN [notify |-> TRUE, reason |-> "no_quiet"]
      ELSE IF last_ts = None
        THEN [notify |-> TRUE, reason |-> "first_run"]
        ELSE IF now_ts - last_ts >= heartbeat_interval
          THEN [notify |-> TRUE, reason |-> "heartbeat"]
          ELSE [notify |-> FALSE, reason |-> "cooldown"]

InitSchedulers ==
  /\ AtRest
  /\ pc = "call"
  /\ args \in {[has_changes |-> a.has_changes, quiet_mode |-> q, now |-> a.now,
                last |-> a.last, cooldown |-> a.cooldown,
                heartbeat_times |-> a.heartbeat_times] :
                 a \in {b \in NotifyArgs : b.last <= b.now}, q \in BOOLEAN}
  /\ result = <<>>

\* monitor._should_notify(has_changes) and
\* notifier._should_notify(recipient_config, has_changes, last) on the same inputs
ApplySchedulers ==
  /\ pc = "call"
  /\ result' =
       [monitor |-> ShouldNotify(args.has_changes, args.now, args.last, args.cooldown,
                                 args.heartbeat_times),
        notifier |-> NotifierShouldNotify(args.quiet_mode, args.has_changes,
                                          IF args.last = DatetimeMin THEN None ELSE args.last,
                                          args.now, args.cooldown)]
  /\ pc' = "returned"
  /\ RestUnchanged

NextSchedulers == ApplySchedulers

SpecSchedulers == InitSchedulers /\ [][NextSchedulers]_vars

SchedulersReturned == pc = "returned" /\ "monitor" \in DOMAIN result

\* C17: with has_changes true both schedulers return (True, "changes"), for
\* every last notification time, current time, cooldown, list of heartbeat
\* slots and quiet mode.
C17_ChangesAlwaysNotify ==
  (SchedulersReturned /\ args.has_changes) =>
    /\ result.monitor = [notify |-> TRUE, reason |-> "changes"]
    /\ result.notifier = [notify |-> TRUE, reason |-> "changes"]

\* Changes inside the cooldown, in quiet mode, before any slot of the day.
C17_Witness ==
  /\ SchedulersReturned /\ args.has_changes /\ args.quiet_mode
  /\ args.now - args.last < args.cooldown
  /\ \A i \in 1..Len(args.heartbeat_times) : TimeOf(args.now) < args.heartbeat_times[i]
  /\ result.monitor.reason = "changes" /\ result.notifier.reason = "changes"


\* ---------------------------------------------------------------------------
\* _calculate_auto_cooldown(heartbeat_times) on its own.
\* Slots on whole hours: 00:00, 07:00, 08:00, 12:00, 16:00, 18:00, 20:00.
HourMarks == {0, 420, 480, 720, 960, 1080, 1200}

MaxSlots == 3

\* Lists of distinct slots, in any order (settings.HEARTBEAT_TIMES keeps the
\* order of the environment variable).
CooldownLists ==
  {hs \in UNION {[1..n -> HourMarks] : n \in 1..MaxSlots} :
     \A i, j \in 1..Len(hs) : i # j => hs[i] # hs[j]}

InitCooldown ==
  /\ AtRest
  /\ pc = "call"
  /\ args \in CooldownLists
  /\ result = <<>>

ApplyCooldown ==
  /\ pc = "call"
  /\ result' = [cooldown |-> CalculateAutoCooldown(args)]
  /\ pc' = "returned"
  /\ RestUnchanged

NextCooldown == ApplyCooldown

SpecCooldown == InitCooldown /\ [][NextCooldown]_vars

CooldownReturned == pc = "returned" /\ "cooldown" \in DOMAIN result

\* Gaps between consecutive slots on the 24-hour clock: from s to the slot
\* that follows it with no other slot in between, wrapping over midnight.
ConsecutiveGaps(slots) ==
  {(p[2] - p[1]) % MinutesPerDay : p \in {<<s, t>> \in slots \X slots :
      /\ s # t
      /\ \A u \in slots \ {s, t} :
           (u - s) % MinutesPerDay > (t - s) % MinutesPerDay}}

HoursOf(minutes) == minutes \div 60

\* C18: the derived cooldown of a non-empty slot list is the minimum gap in
\* hours between consecutive slots on the 24-hour wraparound clock, 24 for a
\* single slot; [08:00] gives 24, [08:00, 20:00] gives 12,
\* [08:00, 12:00, 16:00] gives 4, [07:00, 12:00, 18:00] gives 5 and
\* [08:00, 16:00] gives 8.
C18_CooldownIsMinimumGap ==
  CooldownReturned =>
    LET slots == {args[i] : i \in 1..Len(args)}
        hours == HoursOf(result.cooldown)
    IN /\ result.cooldown = hours * 60
       /\ Cardinality(slots) = 1 => hours = 24
       /\ Cardinality(slots) > 1 =>
            /\ result.cooldown \in ConsecutiveGaps(slots)
            /\ \A g \in ConsecutiveGaps(slots) : result.cooldown <= g
       /\ args = <<480>> => hours = 24
       /\ args = <<480, 1200>> => hours = 12
       /\ args = <<480, 720, 960>> => hours = 4
       /\ args = <<420, 720, 1080>> => hours = 5
       /\ args = <<480, 960>> => hours = 8

\* Slots [00:00, 18:00, 20:00]: the gaps are 18, 2 and 4 hours, the last one
\* over midnight.
C18_Witness ==
  /\ CooldownReturned
  /\ args = <<0, 1080, 1200>>
  /\ HoursOf(result.cooldown) = 2

\* ---------------------------------------------------------------------------
\* Quiet hours in send_telegram_message, on its own.
QUIET_HOURS_START == 21

QUIET_HOURS_END == 8

\* Faulty variant: a window over midnight needs both conditions at once.
IsQuietNoWrap(q_start, q_end, now_hour) ==
  IF q_start > q_end
    THEN now_hour >= q_start /\ now_hour < q_end
    ELSE q_start <= now_hour /\ now_hour < q_end

\* NkonMonitor.send_telegram_message, "Quiet Mode Logic": is_quiet
IsQuiet(q_start, q_end, now_hour) ==
  IF q_start > q_end
    THEN now_hour >= q_start \/ now_hour < q_end
    ELSE q_start <= now_hour /\ now_hour < q_end

\* TelegramNotifier.is_quiet_hours
IsQuietHours(start, end, now_hour) ==
  IF start > end
    THEN now_hour >= start \/ now_hour < end
    ELSE start <= now_hour /\ now_hour < end

\* NkonMonitor.send_telegram_message to one chat: the quiet hours force
\* disable_notification, a dry run returns before the request, and otherwise
\* the request is posted with the payload's disable_notification; the id is
\* returned when the transport accepted the message.
MonitorSend(disable_notification, q_start, q_end, now_hour, dry, ok) ==
  LET is_quiet == IsQuiet(q_start, q_end, now_hour)
      silent == IF is_quiet /\ ~disable_notification THEN TRUE ELSE disable_notification
  IN IF dry
       THEN [posted |-> FALSE, disable_notification |-> silent, sent |-> FALSE]
       ELSE [posted |-> TRUE, disable_notification |-> silent, sent |-> ok]

\* TelegramNotifier.send_telegram_message to one chat:
\* is_silent = disable_notification or self.is_quiet_hours()
NotifierSend(disable_notification, start, end, now_hour, dry, ok) ==
  LET is_silent == disable_notification \/ IsQuietHours(start, end, now_hour)
  IN IF dry
       THEN [posted |-> FALSE, disable_notification |-> is_silent, sent |-> FALSE]
       ELSE [posted |-> TRUE, disable_notification |-> is_silent, sent |-> ok]

Hours == 0..23

\* The default window 21-8 and windows inside one day, over midnight and empty.
QuietWindows ==
  {<<QUIET_HOURS_START, QUIET_HOURS_END>>} \cup
  {<<s, e>> : s \in {0, 6, 8, 17, 23}, e \in {0, 6, 8, 17, 23}}

InitSend ==
  /\ AtRest
  /\ pc = "call"
  /\ args \in {[disable_notification |-> d, window |-> w, now_hour |-> h,
                 dry |-> y, ok |-> k] :
                 d \in BOOLEAN, w \in QuietWindows, h \in Hours,
                 y \in BOOLEAN, k \in BOOLEAN}
  /\ result = <<>>

ApplySend ==
  /\ pc = "call"
  /\ result' =
       [monitor |-> MonitorSend(args.disable_notification, args.window[1],
                                args.window[2], args.now_hour, args.dry, args.ok),
        notifier |-> NotifierSend(args.disable_notification, args.window[1],
                                  args.window[2], args.now_hour, args.dry, args.ok)]
  /\ pc' = "returned"
  /\ RestUnchanged

NextSend == ApplySend

SpecSend == InitSend /\ [][NextSend]_vars

SendReturned == pc = "returned" /\ "window" \in DOMAIN args

\* The hour is quiet for the window, as the claim states it.
QuietHour(start, end, h) ==
  \/ start > end /\ (h >= start \/ h < end)
  \/ start <= end /\ start <= h /\ h < end

\* C19: the quiet hours only force the silent attribute of a delivery: the
\* payload is silent exactly when silence was requested or the hour is quiet
\* for the window (quiet as defined above, 22:00 quiet and 14:00 not quiet for
\* 21-8), and whether the message is posted depends on the dry run alone,
\* never on the hour or the window.
C19_QuietHoursOnlySilence ==
  SendReturned =>
    LET quiet == QuietHour(args.window[1], args.window[2], args.now_hour)
    IN /\ result.monitor.disable_notification = (args.disable_notification \/ quiet)
       /\ result.notifier.disable_notification = (args.disable_notification \/ quiet)
       /\ result.monitor.posted = ~args.dry
       /\ result.notifier.posted = ~args.dry
       /\ result.monitor.sent = (~args.dry /\ args.ok)
       /\ result.notifier.sent = (~args.dry /\ args.ok)
       /\ (args.window = <<21, 8>> /\ args.now_hour = 22) => quiet
       /\ (args.window = <<21, 8>> /\ args.now_hour = 14) => ~quiet

\* A loud message sent at 22:00 with the window 21-8 is posted and delivered
\* silent.
C19_Witness ==
  /\ SendReturned
  /\ args.window = <<QUIET_HOURS_START, QUIET_HOURS_END>> /\ args.now_hour = 22
  /\ ~args.disable_notification /\ ~args.dry /\ args.ok
  /\ result.monitor.posted /\ result.monitor.sent
  /\ result.monitor.disable_notification

\* ---------------------------------------------------------------------------
\* The error reports of a log: sends of the error message.
ErrorReports(lg) == {i \in 1..Len(lg) : lg[i].op = "send" /\ lg[i].kind = "error"}

\* C20: a run that is not a dry run and ends otherwise than normally has
\* reported the error once to each admin chat (the chats of the `full`
\* recipients) and made no other transport call in its handler, ends with the
\* original error raised whether or not the report was delivered, and leaves
\* the state file as it was.
C20_ErrorReportedThenRaised ==
  [][(pc = "loop" /\ pc' = "idle" /\ ~dry_run /\ exit_status' # "ok") =>
       /\ Cardinality(ErrorReports(log')) = Cardinality(AdminChats)
       /\ Len(log') = Cardinality(AdminChats)
       /\ \A i \in ErrorReports(log') : ~log'[i].silent
       /\ exit_status' = "raised"
       /\ state_file' = state_file]_vars

\* A run has raised and its error report was not delivered, after an earlier
\* run had saved a state.
C20_Witness ==
  /\ pc = "idle" /\ exit_status = "raised"
  /\ Len(log) = 1 /\ ErrorReports(log) = {1} /\ ~log[1].ok
  /\ state_file # NoFile

\* ---------------------------------------------------------------------------
\* __init__ and _load_state on their own: what the monitor is constructed
\* from, for every kind of state.json.
\*   "missing"      no file
\*   "unparseable"  not JSON (json.load raises)
\*   "list"         JSON, but a list and not an object
\*   "legacy"       a bare snapshot, no version
\*   "v2"           the version-2 envelope
\*   "v2_bad_time"  the envelope with a last_notification_time that is not an
\*                  ISO timestamp
FileKinds == {"missing", "unparseable", "list", "legacy", "v2", "v2_bad_time"}

TrackedChoices ==
  {NoMessages, [sent |-> EmptyDict, no_changes |-> Put(EmptyDict, <<"c1">>, 1)]}

StateFiles ==
  {[kind |-> k, products |-> p, last_messages |-> m,
    stock_cumulative_diffs |-> EmptyDict, last_notification_time |-> t] :
     k \in FileKinds, p \in Snapshots, m \in TrackedChoices,
     t \in {NoTimestamp, IsoFormat(Combine(0, 485))}}

\* _load_state: {} when there is no file or json.load raises, else what
\* json.load returned.
LoadState(file) ==
  IF file.kind \in {"missing", "unparseable"}
    THEN [kind |-> "legacy", products |-> EmptyDict, last_messages |-> NoMessages,
          stock_cumulative_diffs |-> EmptyDict, last_notification_time |-> NoTimestamp]
    ELSE file

\* __init__, "Обробка версій State": loaded_state.get on a list raises
\* AttributeError, datetime.fromisoformat on a malformed string raises
\* ValueError; neither is caught.
Construct(file) ==
  LET loaded == LoadState(file)
      envelope == [version |-> IF loaded.kind = "legacy" THEN 0 ELSE 2,
                   products |-> loaded.products,
                   last_messages |-> loaded.last_messages,
                   stock_cumulative_diffs |-> loaded.stock_cumulative_diffs,
                   last_notification_time |-> loaded.last_notification_time]
  IN IF loaded.kind = "list"
       THEN [status |-> "AttributeError", monitor |-> LoadedState(NoFile)]
       ELSE IF loaded.kind = "v2_bad_time"
         THEN [status |-> "ValueError", monitor |-> LoadedState(NoFile)]
         ELSE [status |-> "constructed", monitor |-> LoadedState(envelope)]

InitLoad ==
  /\ AtRest
  /\ pc = "call"
  /\ args \in StateFiles
  /\ result = <<>>

ApplyLoad ==
  /\ pc = "call"
  /\ result' = Construct(args)
  /\ pc' = "returned"
  /\ RestUnchanged

NextLoad == ApplyLoad

SpecLoad == InitLoad /\ [][NextLoad]_vars

LoadReturned == pc = "returned" /\ "kind" \in DOMAIN args

\* The file exists and does not hold a process state.
InvalidStateFile(file) == file.kind \in {"unparseable", "list", "v2_bad_time"}

\* C21: when state.json exists but does not hold a valid process state, the
\* monitor is constructed, with the empty state (empty previous snapshot, no
\* tracked ids, empty accumulators, no last notification time), so that the
\* following run is a first run: detection reports no change for any catalog.
C21_InvalidFileGivesEmptyState ==
  (LoadReturned /\ InvalidStateFile(args)) =>
    /\ result.status = "constructed"
    /\ result.monitor = LoadedState(NoFile)
    /\ \A c \in Snapshots : ~HasChanges(DetectChanges(c, result.monitor.previous_state))

\* ---------------------------------------------------------------------------
\* The transport calls of a log that failed while serving a recipient.
FailedCalls(lg) == {i \in 1..Len(lg) : lg[i].op \in {"send", "edit"} /\ ~lg[i].ok
                                        /\ lg[i].kind # "error"}

\* No message is tried twice: a log holds at most one edit and at most one
\* send of each kind.
NoRetry(lg) ==
  \A i, j \in 1..Len(lg) :
    (i # j /\ lg[i].op \in {"send", "edit"} /\ lg[i].op = lg[j].op) =>
      lg[i].kind # lg[j].kind

\* C22: a transport call that fails for one recipient does not end the run:
\* the iteration completes and moves on to the next recipient without trying
\* the failed message again, the next recipient in the list then has its
\* branch of the loop body to take, after the last one the run can finish,
\* and a normal finish of a run that is not a dry run saves the state.
C22_FailedCallIsNotFatal ==
  /\ [][(pc = "loop" /\ FailedCalls(log') # {} /\ log' # log) =>
          /\ pc' = "loop" /\ idx' = idx + 1
          /\ NoRetry(log')]_vars
  /\ [][(pc = "loop" /\ pc' = "idle" /\ exit_status' = "ok" /\ ~dry_run) =>
          state_file' = StateToSave]_vars
  /\ []((InLoop /\ FailedCalls(log) # {}) =>
          Branch \in {"full", "changes", "heartbeat", "silent"})
  /\ []((pc = "loop" /\ idx = Len(RECIPIENTS) + 1) => ENABLED FinishRun)

\* A run was saved in which the send for the first recipient failed (no
\* placeholder is tracked for it) and the second recipient was served.
C22_Witness ==
  /\ pc = "idle" /\ exit_status = "ok"
  /\ state_file # NoFile
  /\ <<"c1">> \notin DOMAIN state_file.last_messages.no_changes
  /\ <<"c2", 7>> \in DOMAIN state_file.last_messages.no_changes

\* ---------------------------------------------------------------------------
\* Both schedulers were called without changes for a recipient whose quiet
\* mode is off.
NoChangesQuietOff == SchedulersReturned /\ ~args.has_changes /\ ~args.quiet_mode

\* C23 (as stated): without changes and with the recipient's quiet mode off
\* the scheduler returns (True, "no_quiet"), whatever the last notification
\* time, the cooldown and the slots are.
C23_QuietOffAlwaysNotifies ==
  NoChangesQuietOff =>
    /\ result.notifier = [notify |-> TRUE, reason |-> "no_quiet"]
    /\ result.monitor = [notify |-> TRUE, reason |-> "no_quiet"]

\* C23 (amended): without changes and with quiet mode off,
\* TelegramNotifier._should_notify returns (True, "no_quiet") whatever the
\* last notification time and the interval are; NkonMonitor._should_notify,
\* the scheduler run() calls, knows no quiet mode and answers "cooldown",
\* "heartbeat" or "silent", notifying only for "heartbeat".
C23_QuietOffNotifiesInNotifierOnly ==
  NoChangesQuietOff =>
    /\ result.notifier = [notify |-> TRUE, reason |-> "no_quiet"]
    /\ result.monitor.reason \in {"cooldown", "heartbeat", "silent"}
    /\ result.monitor.notify = (result.monitor.reason = "heartbeat")

\* Quiet mode off, inside the cooldown: the notifier says "no_quiet", the
\* monitor's scheduler suppresses with "cooldown".
C23_Witness ==
  /\ NoChangesQuietOff
  /\ args.last # DatetimeMin /\ args.now - args.last < args.cooldown
  /\ result.notifier.reason = "no_quiet"
  /\ result.monitor = [notify |-> FALSE, reason |-> "cooldown"]

\* ---------------------------------------------------------------------------
\* _fetch_real_stock on its own, against a reservation oracle with a hidden
\* limit: the page accepts a quantity up to the limit (a success message),
\* and above it either states the limit in an error message or shows nothing.
PROBE_QTY == 30000

MaxLimit == 40

Limits == 0..MaxLimit \cup {2095, PROBE_QTY - 1, PROBE_QTY, PROBE_QTY + 5}

\* What the page answers to a reservation of qty.
Oracle(limit, states_limit, qty) ==
  IF qty <= limit THEN "SUCCESS"
  ELSE IF states_limit THEN "ERROR"
  ELSE "SILENCE"

\* Faulty variant: the limit the page states is not read.
FetchRealStockIgnoresLimit(limit, states_limit, qty_reset) ==
  LET answer == Oracle(limit, states_limit, PROBE_QTY)
  IN IF answer = "SILENCE" /\ ~qty_reset THEN None ELSE 0

\* _fetch_real_stock: one reservation of 30000.  No message: 0 when the
\* quantity field was reset by the page, None otherwise.  A message with a
\* number: that number.  Any other message, the success message included: 0.
FetchRealStock(limit, states_limit, qty_reset) ==
  LET answer == Oracle(limit, states_limit, PROBE_QTY)
  IN IF answer = "SILENCE"
       THEN IF qty_reset THEN 0 ELSE None
       ELSE IF answer = "ERROR"
         THEN limit
         ELSE 0

InitProbe ==
  /\ AtRest
  /\ pc = "call"
  /\ args \in {[limit |-> l, states_limit |-> e, qty_reset |-> q] :
                 l \in Limits, e \in BOOLEAN, q \in BOOLEAN}
  /\ result = <<>>

ApplyProbe ==
  /\ pc = "call"
  /\ result' = [stock |-> FetchRealStock(args.limit, args.states_limit, args.qty_reset)]
  /\ pc' = "returned"
  /\ RestUnchanged

NextProbe == ApplyProbe

SpecProbe == InitProbe /\ [][NextProbe]_vars

ProbeReturned == pc = "returned" /\ "stock" \in DOMAIN result

\* The oracle has emitted ERROR(limit) during the probing.
ErrorEmitted == Oracle(args.limit, args.states_limit, PROBE_QTY) = "ERROR"

NoOpRun == products = previous_state

\* C25: in a run whose catalog equals the previous persisted snapshot, every
\* recipient, whatever its capacity filter, gets a changeset with empty new,
\* removed, price-changed and status-changed lists (no item is removed for a
\* recipient because its capacity is below the recipient's filter), and no
\* "changes" message is sent.
C25_NoOpRunHasNoChanges ==
  (Iterated /\ NoOpRun) =>
    /\ last.changes.new = {}
    /\ last.changes.removed = {}
    /\ last.changes.price_changes = {}
    /\ last.changes.status_changes = {}
    /\ SendsOf("changes") = {}

\* ---------------------------------------------------------------------------
\* The scheduler's answer for a recipient as the state persisted by the
\* previous run, the clock and the recipient's own changeset determine it.
DecisionFromPersisted(has_changes) ==
  ShouldNotify(has_changes, now, LoadedState(state_file).last_notification_time,
               heartbeat_cooldown, HEARTBEAT_TIMES)

\* C26: within a run the decision taken for a `changes` recipient is the one
\* the persisted state, the clock and its own changeset determine, whatever
\* its position in the list and whatever was sent to earlier recipients; in
\* particular, when a heartbeat is due by the persisted state, every
\* `changes` recipient without changes takes the heartbeat branch.
C26_DecisionIndependentOfEarlierRecipients ==
  (Iterated /\ last.type = "changes" /\ ~force_notify) =>
    /\ last.reason = DecisionFromPersisted(last.has_changes).reason
    /\ (~last.has_changes /\ DecisionFromPersisted(FALSE).reason = "heartbeat") =>
         last.branch = "heartbeat"

\* ---------------------------------------------------------------------------
\* The fields of the monitor as a run holds them when it reaches the save.
MemoryAtSave ==
  [previous_state |-> products,
   last_messages |-> [sent |-> new_last_messages, no_changes |-> active_no_changes],
   stock_cumulative_diffs |-> stock_cumulative_diffs,
   last_notification_time |-> last_notification_time]

\* The fields of the monitor inside the loop.
MemoryInRun ==
  [previous_state |-> previous_state, last_messages |-> last_messages,
   stock_cumulative_diffs |-> stock_cumulative_diffs,
   last_notification_time |-> last_notification_time]

PlaceholderSends ==
  {i \in 1..Len(log) : /\ log[i].op = "send" /\ log[i].ok
                        /\ log[i].kind \in {"baseline", "no_change"}}

LastPlaceholderSend == CHOOSE i \in PlaceholderSends : \A j \in PlaceholderSends : j <= i

\* The recipient's tracked placeholder was edited successfully.
OwnPlaceholderEdited ==
  \E i \in 1..Len(log) : log[i].op = "edit" /\ log[i].ok /\ log[i].id = last.last_nc_id

\* C28: in a run that is not a dry run, the placeholder id kept for a
\* `changes` recipient under its key (chat id plus thread id) is the id of the
\* last baseline or no-change message delivered to it in this run, or else
\* its previously tracked id whose edit succeeded in this run; when neither
\* happened none is kept.  Every edit targets the id tracked under the
\* recipient's own key, placeholders are kept under the keys of `changes`
\* recipients only, and what a normal finish persists is what was kept.
C28_PlaceholderIsSentOrEdited ==
  /\ []((Iterated /\ ~dry_run /\ last.type = "changes") =>
          LET kept == Get(active_no_changes, last.msg_key, 0)
          IN /\ PlaceholderSends # {} => kept = log[LastPlaceholderSend].id
             /\ (PlaceholderSends = {} /\ kept # 0) =>
                  (OwnPlaceholderEdited /\ kept = last.last_nc_id)
             /\ (PlaceholderSends = {} /\ ~OwnPlaceholderEdited) => kept = 0
             /\ last.last_nc_id = Get(last_messages.no_changes, last.msg_key, 0)
             /\ \A i \in 1..Len(log) :
                  log[i].op = "edit" => (log[i].id = last.last_nc_id /\ log[i].id # 0))
  /\ [](DOMAIN active_no_changes \subseteq
          {MsgKey(RECIPIENTS[i]) : i \in {j \in 1..Len(RECIPIENTS) :
                                            RECIPIENTS[j].type = "changes"}})
  /\ [][(pc = "loop" /\ pc' = "idle" /\ exit_status' = "ok" /\ ~dry_run) =>
          state_file'.last_messages.no_changes = active_no_changes]_vars

\* The second recipient's tracked placeholder was edited in place and stays
\* tracked, while the first recipient's is a message sent in this run.
C28_Witness ==
  /\ Iterated /\ ~dry_run /\ last.msg_key = <<"c2", 7>>
  /\ PlaceholderSends = {} /\ OwnPlaceholderEdited
  /\ Get(active_no_changes, <<"c2", 7>>, 0) = last.last_nc_id
  /\ Get(active_no_changes, <<"c1">>, 0) \notin {0, Get(last_messages.no_changes, <<"c1">>, 0)}

\* ---------------------------------------------------------------------------
\* The snapshot from run to run, without the dispatch: each run loads the
\* state, observes a catalog of two items, detects the changes for one of
\* the recipients and, unless it raises, saves its snapshot.
RunCatalogs ==
  {raw \in UNION {[S -> UNION {Observations(k) : k \in S}] : S \in SUBSET DetectKeys} :
     WellKeyed(raw)}

InitSnapshots ==
  /\ AtRest
  /\ pc = "idle"
  /\ args = <<>>
  /\ result = <<>>

SnapshotRestUnchanged ==
  UNCHANGED <<last_messages, stock_cumulative_diffs, last_notification_time,
              heartbeat_cooldown, dry_run, force_notify, now, idx, new_last_messages,
              active_no_changes, next_msg_id, log, permanent_ids, hb_pending, hb_sent,
              rare, result>>

\* __init__ and run() up to "Остаточна фільтрація"; args keeps what the
\* pages showed in this run.
BeginSnapshotRun ==
  /\ pc = "idle" /\ runs < MaxRuns
  /\ \E raw \in RunCatalogs :
       /\ args' = raw
       /\ previous_state' = LoadedState(state_file).previous_state
       /\ products' = FetchProducts(raw, LoadedState(state_file).previous_state)
  /\ pc' = "fetched"
  /\ runs' = runs + 1
  /\ last' = NoLast
  /\ UNCHANGED <<state_file, exit_status>>
  /\ SnapshotRestUnchanged

\* run(): rec_products and detect_changes for one recipient of the list
DetectForRecipient ==
  /\ pc = "fetched"
  /\ \E i \in 1..Len(RECIPIENTS) :
       LET ch == DetectChanges(RecProducts(products, RECIPIENTS[i]), previous_state)
       IN last' = [NoLast EXCEPT !.msg_key = MsgKey(RECIPIENTS[i]),
                                 !.type = RECIPIENTS[i].type,
                                 !.has_changes = HasChanges(ch),
                                 !.changes = ch]
  /\ pc' = "detected"
  /\ UNCHANGED <<state_file, previous_state, products, runs, exit_status, args>>
  /\ SnapshotRestUnchanged

\* run(): state_to_save and _save_state; the process ends
EndSnapshotRun ==
  /\ pc = "detected"
  /\ state_file' = StateToSave
  /\ exit_status' = "ok"
  /\ pc' = "idle"
  /\ previous_state' = EmptyDict
  /\ products' = EmptyDict
  /\ last' = NoLast
  /\ args' = <<>>
  /\ UNCHANGED runs
  /\ SnapshotRestUnchanged

\* run(), "except Exception": the run raises and saves nothing
AbortSnapshotRun ==
  /\ pc \in {"fetched", "detected"}
  /\ exit_status' = "raised"
  /\ pc' = "idle"
  /\ previous_state' = EmptyDict
  /\ products' = EmptyDict
  /\ last' = NoLast
  /\ args' = <<>>
  /\ UNCHANGED <<state_file, runs>>
  /\ SnapshotRestUnchanged

NextSnapshots ==
  \/ BeginSnapshotRun
  \/ DetectForRecipient
  \/ EndSnapshotRun
  \/ AbortSnapshotRun

SpecSnapshots == InitSnapshots /\ [][NextSnapshots]_vars

SnapshotDetected == pc = "detected"

\* The keys of the recipient's current list that the previous persisted
\* snapshot does not hold.
OnlyInCurrent == (DOMAIN last.changes.current) \ (DOMAIN previous_state)

\* C29: in every run that found a persisted state, every item of
\* the current list whose key is absent from the previous persisted snapshot
\* is reported as new, also after a run that persisted an empty catalog.
C29_NewWheneverStatePersisted ==
  (SnapshotDetected /\ state_file # NoFile) => last.changes.new = OnlyInCurrent

\* ---------------------------------------------------------------------------
\* An item as no snapshot and no recipient list may hold it.
Unavailable(item) == item.stock_status = "out_of_stock" \/ item.real_stock = 0

\* What the pages showed in the current run.
Observed == IF pc \in {"fetched", "detected"} THEN args ELSE EmptyDict

\* C30: over all runs from the empty state, no item of the persisted
\* snapshot, of the run's products or of any recipient's current list is
\* out_of_stock or has real stock 0; an item probed at 0 is not among the
\* run's products, a probed item carries the probed stock, and an item whose
\* probe failed carries the real stock of the previous snapshot, or none.
C30_NoUnavailableItemKept ==
  /\ \A k \in DOMAIN state_file.products : ~Unavailable(state_file.products[k])
  /\ \A k \in DOMAIN products : ~Unavailable(products[k])
  /\ \A i \in 1..Len(RECIPIENTS) :
       \A k \in DOMAIN RecProducts(products, RECIPIENTS[i]) :
         ~Unavailable(RecProducts(products, RECIPIENTS[i])[k])
  /\ \A k \in DOMAIN last.changes.current : ~Unavailable(last.changes.current[k])
  /\ \A k \in DOMAIN Observed :
       /\ Observed[k].probe = 0 => k \notin DOMAIN products
       /\ Observed[k].probe \notin {0, None} =>
            (k \in DOMAIN products /\ products[k].real_stock = Observed[k].probe)
       /\ Observed[k].probe = None =>
            /\ k \in DOMAIN products
            /\ products[k].real_stock =
                 (IF k \in DOMAIN previous_state THEN previous_state[k].real_stock
                  ELSE None)

\* The item persisted with stock 90 is probed at 0 in this run and is gone
\* from the run's products, while the other item stays.
C30_Witness ==
  /\ pc = "detected"
  /\ "a" \in DOMAIN previous_state /\ previous_state["a"].real_stock = 90
  /\ "a" \in DOMAIN args /\ args["a"].probe = 0
  /\ DOMAIN products = {"b"}
=============================================================================
